---- MODULE Spec2Model ----
(***************************************************************************)
(* Model of the gzip response-compression middleware of goroute/compress   *)
(* (src/compress.go).                                                      *)
(*                                                                         *)
(* One request is followed from the call of the middleware function to     *)
(* its return.  The state is the route.Response the middleware works on    *)
(* (header map, Writer, Size, Committed, Status), the original             *)
(* http.ResponseWriter behind it (committed status line and headers, body  *)
(* bytes, how much of the body has been flushed to the connection), the    *)
(* gzip.Writer the middleware constructs, and a reference copy of the      *)
(* response on which the same handler calls are replayed without the       *)
(* middleware.                                                             *)
(*                                                                         *)
(* Bytes on the original sink are a sequence of frames <<kind, payload>>:  *)
(*   <<"raw", b>>      bytes written uncompressed                          *)
(*   <<"hdr", <<>>>>   the 10-byte gzip member header                      *)
(*   <<"sync", d>>     deflate block(s) holding d, ended by a sync marker  *)
(*   <<"final", d>>    the final deflate block(s) holding d                *)
(*   <<"trailer", s>>  CRC-32 and ISIZE of the uncompressed data s         *)
(***************************************************************************)
EXTENDS Integers, Sequences, FiniteSets, TLC

VARIABLES
    optSkip,      \* what opts.Skipper(c) answers for this request
    optLevel,     \* opts.Level
    reqAE,        \* the request's Accept-Encoding header, as characters
    canFlush,     \* the original sink implements http.Flusher
    canHijack,    \* the original sink implements http.Hijacker
    pc,           \* "idle": not called yet, "next": inside next(c), "done"
    exit,         \* how the middleware call ended
    nextCalls,    \* number of times next(c) was called
    nextResult,   \* how next(c) ended: "none", "nil", "err", "panic"
    hdr,          \* res.Header(): the response's header map
    res,          \* the route.Response: Writer, Size, Committed, Status
    sink,         \* the original http.ResponseWriter rw
    z,            \* the gzip.Writer w
    ref,          \* the same handler calls replayed without the middleware
    written,      \* every byte the handler passed to Write, in order
    lastOp,       \* the handler's most recent call
    used,         \* the kinds of call the handler has made
    hijack,       \* outcome of the handler's Hijack call
    nops          \* number of handler calls so far

vars == <<optSkip, optLevel, reqAE, canFlush, canHijack, pc, exit, nextCalls,
          nextResult, hdr, res, sink, z, ref, written, lastOp, used, hijack,
          nops>>

----------------------------------------------------------------------------
(* Bounds of the model *)

MaxOps == 4    \* handler calls per request

(* Program constants *)

DefaultLevel == -1
HuffmanOnly == -2
BestCompression == 9
StatusOK == 200
StatusNoContent == 204
StatusNotFound == 404

gzipScheme == <<"g", "z", "i", "p">>

(* The byte slices a handler passes to Write: "t" is a printable character, *)
(* "z" a NUL byte.                                                         *)
Payloads == { <<>>, <<"t">>, <<"z", "t">> }

(* Accept-Encoding values a client may send. *)
AcceptValues ==
    { <<>>,
      gzipScheme,
      <<"b", "r">>,
      <<"b", "r", ",", "g", "z", "i", "p">>,
      <<"G", "Z", "I", "P">> }

Levels == {HuffmanOnly - 1, DefaultLevel, BestCompression, BestCompression + 1}

OtherEncoding == <<"b", "r">>
TextPlain == "text/plain; charset=utf-8"
OctetStream == "application/octet-stream"
EventStream == "text/event-stream"

----------------------------------------------------------------------------
(* Library functions the middleware calls *)

\* strings.Contains(s, sub)
Contains(s, sub) ==
    \E i \in 1..(Len(s) - Len(sub) + 1) : SubSeq(s, i, i + Len(sub) - 1) = sub

\* http.DetectContentType(b), for bodies without a known signature
DetectContentType(b) ==
    IF \E i \in 1..Len(b) : b[i] = "z" THEN OctetStream ELSE TextPlain

\* gzip.NewWriterLevel's check of the level
LevelValid(level) == level >= HuffmanOnly /\ level <= BestCompression

----------------------------------------------------------------------------
(* A response "world": the header map, the route.Response, the original     *)
(* sink and the gzip.Writer, plus whether the call in progress panicked.   *)

NoHeaders(vary) == [Vary |-> vary, CE |-> <<>>, CT |-> "", CL |-> ""]

NewResponse == [Writer |-> "rw", Size |-> 0, Committed |-> FALSE, Status |-> 0]

NewSink ==
    [wroteHeader |-> FALSE, status |-> 0, wire |-> NoHeaders(<<>>),
     body |-> <<>>, flushed |-> 0, hijacked |-> FALSE]

NoGzip ==
    [made |-> FALSE, dest |-> "none", wroteHeader |-> FALSE, closed |-> FALSE,
     buf |-> <<>>, sum |-> <<>>, closes |-> 0, log |-> <<>>]

NewWorld(vary) ==
    [hdr |-> NoHeaders(vary), res |-> NewResponse, sink |-> NewSink,
     z |-> NoGzip, panic |-> FALSE]

World == [hdr |-> hdr, res |-> res, sink |-> sink, z |-> z, panic |-> FALSE]

----------------------------------------------------------------------------
(* The original http.ResponseWriter rw *)

\* rw.WriteHeader(code): the first call commits the status and a snapshot of
\* the header map; later calls are ignored.
SinkWriteHeader(W, code) ==
    IF W.sink.wroteHeader THEN W
    ELSE [W EXCEPT !.sink.wroteHeader = TRUE,
                   !.sink.status = code,
                   !.sink.wire = W.hdr]

\* rw.Write(frames): commits 200 first when nothing was committed.
SinkWrite(W, frames) ==
    LET W1 == SinkWriteHeader(W, StatusOK)
    IN  [W1 EXCEPT !.sink.body = W1.sink.body \o frames]

\* rw.(http.Flusher).Flush(): commits 200 when nothing was committed and
\* pushes everything written so far to the connection.
SinkFlush(W) ==
    LET W1 == SinkWriteHeader(W, StatusOK)
    IN  [W1 EXCEPT !.sink.flushed = Len(W1.sink.body)]

\* rw.(http.Hijacker).Hijack()
SinkHijack(W) == [W EXCEPT !.sink.hijacked = TRUE]

----------------------------------------------------------------------------
(* The gzip.Writer w *)

\* gzip.NewWriterLevel(rw, level), for a valid level
GzipNew(W) ==
    [W EXCEPT !.z = [NoGzip EXCEPT !.made = TRUE, !.dest = "rw",
                                   !.log = <<"new">>]]

\* Bytes the gzip.Writer hands to its destination.
GzipEmit(W, frames) ==
    IF W.z.dest = "rw" THEN SinkWrite(W, frames) ELSE W

\* w.Write(b): the first call writes the member header to the destination;
\* the data is buffered by the deflate compressor.
GzipWrite(W, b) ==
    LET W1 == IF W.z.wroteHeader THEN W
              ELSE [GzipEmit(W, << <<"hdr", <<>>>> >>) EXCEPT !.z.wroteHeader = TRUE]
    IN  [W1 EXCEPT !.z.buf = W1.z.buf \o b, !.z.sum = W1.z.sum \o b]

\* w.Flush(): writes the header if it was not written, then the buffered
\* data as deflate blocks ended by a sync marker.
GzipFlush(W) ==
    IF W.z.closed THEN W
    ELSE LET W1 == IF W.z.wroteHeader THEN W ELSE GzipWrite(W, <<>>)
             W2 == GzipEmit(W1, << <<"sync", W1.z.buf>> >>)
         IN  [W2 EXCEPT !.z.buf = <<>>]

\* w.Reset(ioutil.Discard)
GzipReset(W) ==
    [W EXCEPT !.z.dest = "discard", !.z.wroteHeader = FALSE, !.z.closed = FALSE,
              !.z.buf = <<>>, !.z.sum = <<>>, !.z.log = Append(W.z.log, "reset")]

\* w.Close(): writes the header if it was not written, the final deflate
\* block and the trailer.  A second Close does nothing.
GzipClose(W) ==
    IF W.z.closed
    THEN [W EXCEPT !.z.closes = W.z.closes + 1, !.z.log = Append(W.z.log, "close")]
    ELSE LET W1 == IF W.z.wroteHeader THEN W ELSE GzipWrite(W, <<>>)
             W2 == GzipEmit(W1, << <<"final", W1.z.buf>>, <<"trailer", W1.z.sum>> >>)
         IN  [W2 EXCEPT !.z.buf = <<>>, !.z.closed = TRUE,
                        !.z.closes = W.z.closes + 1,
                        !.z.log = Append(W.z.log, "close")]

----------------------------------------------------------------------------
(* The decorator gzipResponseWriter{Writer: w, ResponseWriter: rw} *)

GrwWriteHeader(W, code) ==
    LET W1 == IF code = StatusNoContent THEN [W EXCEPT !.hdr.CE = <<>>] ELSE W
        W2 == [W1 EXCEPT !.hdr.CL = ""]
    IN  SinkWriteHeader(W2, code)

GrwWrite(W, b) ==
    LET W1 == IF W.hdr.CT = "" THEN [W EXCEPT !.hdr.CT = DetectContentType(b)]
              ELSE W
    IN  GzipWrite(W1, b)

\* Flush with the two layers flushed in the wrong order.
GrwFlushSinkFirst(W) ==
    LET W1 == IF canFlush THEN SinkFlush(W) ELSE W
    IN  GzipFlush(W1)

GrwFlush(W) ==
    LET W1 == GzipFlush(W)
    IN  IF canFlush THEN SinkFlush(W1) ELSE W1

\* The type assertion w.ResponseWriter.(http.Hijacker) panics when rw is no
\* http.Hijacker.
GrwHijack(W) ==
    IF canHijack THEN SinkHijack(W) ELSE [W EXCEPT !.panic = TRUE]

----------------------------------------------------------------------------
(* The route.Response the handler calls: it forwards to res.Writer, which   *)
(* is rw or the decorator.                                                  *)

ResSetHeader(W, k, v) == [W EXCEPT !.hdr[k] = v]

ResWriteHeader(W, code) ==
    IF W.res.Committed THEN W
    ELSE LET W1 == [W EXCEPT !.res.Status = code]
             W2 == IF W1.res.Writer = "grw" THEN GrwWriteHeader(W1, code)
                   ELSE SinkWriteHeader(W1, code)
         IN  [W2 EXCEPT !.res.Committed = TRUE]

ResWrite(W, b) ==
    LET W1 == ResWriteHeader(W, StatusOK)
        W2 == IF W1.res.Writer = "grw" THEN GrwWrite(W1, b)
              ELSE SinkWrite(W1, IF b = <<>> THEN <<>> ELSE << <<"raw", b>> >>)
    IN  [W2 EXCEPT !.res.Size = W2.res.Size + Len(b)]

ResFlush(W) ==
    IF W.res.Writer = "grw" THEN GrwFlush(W)
    ELSE IF canFlush THEN SinkFlush(W)
    ELSE [W EXCEPT !.panic = TRUE]

ResHijack(W) ==
    IF W.res.Writer = "grw" THEN GrwHijack(W)
    ELSE IF canHijack THEN SinkHijack(W)
    ELSE [W EXCEPT !.panic = TRUE]

----------------------------------------------------------------------------
(* The middleware function returned by New *)

\* Before(W) without the Skipper check.
BeforeIgnoringSkip(W) ==
    LET W1 == [W EXCEPT !.hdr.Vary = Append(W.hdr.Vary, "Accept-Encoding")]
    IN  IF Contains(reqAE, gzipScheme)
        THEN LET W2 == [W1 EXCEPT !.hdr.CE = gzipScheme]
             IN  IF ~LevelValid(optLevel)
                 THEN [w |-> W2, out |-> "ctor_err"]
                 ELSE [w |-> [GzipNew(W2) EXCEPT !.res.Writer = "grw"],
                       out |-> "next"]
        ELSE [w |-> W1, out |-> "next"]

\* Before(W) compressing whatever Accept-Encoding says.
BeforeIgnoringAccept(W) ==
    IF optSkip THEN [w |-> W, out |-> "next"]
    ELSE LET W1 == [W EXCEPT !.hdr.Vary = Append(W.hdr.Vary, "Accept-Encoding")]
             W2 == [W1 EXCEPT !.hdr.CE = gzipScheme]
         IN  IF ~LevelValid(optLevel)
             THEN [w |-> W2, out |-> "ctor_err"]
             ELSE [w |-> [GzipNew(W2) EXCEPT !.res.Writer = "grw"],
                   out |-> "next"]

\* Lines 64-90: everything before next(c).  The outcome is "next" when
\* next(c) is called and "ctor_err" when gzip.NewWriterLevel failed.
Before(W) ==
    IF optSkip THEN [w |-> W, out |-> "next"]
    ELSE LET W1 == [W EXCEPT !.hdr.Vary = Append(W.hdr.Vary, "Accept-Encoding")]
         IN  IF Contains(reqAE, gzipScheme)
             THEN LET W2 == [W1 EXCEPT !.hdr.CE = gzipScheme]
                  IN  IF ~LevelValid(optLevel)
                      THEN [w |-> W2, out |-> "ctor_err"]
                      ELSE [w |-> [GzipNew(W2) EXCEPT !.res.Writer = "grw"],
                            out |-> "next"]
             ELSE [w |-> W1, out |-> "next"]

\* The deferred function leaving the decorator installed on an empty body.
DeferredNoRestore(W) ==
    LET W1 == IF W.res.Size = 0
              THEN LET Wa == IF W.hdr.CE = gzipScheme
                             THEN [W EXCEPT !.hdr.CE = <<>>] ELSE W
                   IN  GzipReset(Wa)
              ELSE W
    IN  GzipClose(W1)

\* The deferred function without the final w.Close().
DeferredNoClose(W) ==
    IF W.res.Size = 0
    THEN LET Wa == IF W.hdr.CE = gzipScheme
                   THEN [W EXCEPT !.hdr.CE = <<>>] ELSE W
             Wb == [Wa EXCEPT !.res.Writer = "rw"]
         IN  GzipReset(Wb)
    ELSE W

\* The deferred function closing the gzip.Writer before resetting it.
DeferredCloseFirst(W) ==
    LET W1 == GzipClose(W)
    IN  IF W1.res.Size = 0
        THEN LET Wa == IF W1.hdr.CE = gzipScheme
                       THEN [W1 EXCEPT !.hdr.CE = <<>>] ELSE W1
                 Wb == [Wa EXCEPT !.res.Writer = "rw"]
             IN  GzipReset(Wb)
        ELSE W1

\* Lines 77-88: the deferred function.
Deferred(W) ==
    LET W1 == IF W.res.Size = 0
              THEN LET Wa == IF W.hdr.CE = gzipScheme
                             THEN [W EXCEPT !.hdr.CE = <<>>] ELSE W
                       Wb == [Wa EXCEPT !.res.Writer = "rw"]
                   IN  GzipReset(Wb)
              ELSE W
    IN  GzipClose(W1)

\* What runs when next(c) ends: the deferred function, if one was registered.
After(W) == IF W.z.made THEN Deferred(W) ELSE W

----------------------------------------------------------------------------
(* Initial state: the middleware is built with its options, a request has   *)
(* arrived and another middleware has already added a Vary value.          *)

PriorVary == <<"Origin">>

\* <<is an http.Flusher, is an http.Hijacker>>: a server connection, a
\* recorder, a bare writer.
SinkKinds == {<<TRUE, TRUE>>, <<TRUE, FALSE>>, <<FALSE, FALSE>>}

Init ==
    /\ optSkip \in BOOLEAN
    /\ optLevel \in Levels
    /\ reqAE \in AcceptValues
    /\ \E k \in SinkKinds : canFlush = k[1] /\ canHijack = k[2]
    /\ pc = "idle"
    /\ exit = "none"
    /\ nextCalls = 0
    /\ nextResult = "none"
    /\ hdr = NoHeaders(PriorVary)
    /\ res = NewResponse
    /\ sink = NewSink
    /\ z = NoGzip
    /\ ref = NewWorld(PriorVary)
    /\ written = <<>>
    /\ lastOp = "none"
    /\ used = {}
    /\ hijack = "none"
    /\ nops = 0

Install(W) == /\ hdr' = W.hdr
              /\ res' = W.res
              /\ sink' = W.sink
              /\ z' = W.z

\* The middleware is called and runs up to next(c), or returns the
\* constructor's error.
Enter ==
    /\ pc = "idle"
    /\ LET b == Before(World)
       IN  /\ Install(b.w)
           /\ IF b.out = "next"
              THEN pc' = "next" /\ exit' = exit /\ nextCalls' = nextCalls + 1
              ELSE pc' = "done" /\ exit' = b.out /\ nextCalls' = nextCalls
    /\ UNCHANGED <<optSkip, optLevel, reqAE, canFlush, canHijack, nextResult,
                   ref, written, lastOp, used, hijack, nops>>

\* next(c) ends with `result`; the deferred function runs and the
\* middleware returns (or keeps panicking).
Leave(W, result) ==
    /\ Install(After(W))
    /\ pc' = "done"
    /\ exit' = result
    /\ nextResult' = result

\* One call of the handler on c.Response(): Wa is the response after the
\* call, Wr the reference response after the same call.  A panic in the
\* call unwinds next(c).
Call(kind, Wa, Wr) ==
    /\ pc = "next"
    /\ nops < MaxOps
    /\ nops' = nops + 1
    /\ lastOp' = kind
    /\ used' = used \cup {kind}
    /\ ref' = IF ref.panic THEN ref ELSE Wr
    /\ IF Wa.panic
       THEN Leave(Wa, "panic")
       ELSE Install(Wa) /\ UNCHANGED <<pc, exit, nextResult>>
    /\ UNCHANGED <<optSkip, optLevel, reqAE, canFlush, canHijack, nextCalls>>

HeaderSets ==
    { <<"CT", EventStream>>, <<"CL", "5">>, <<"CE", OtherEncoding>> }

StatusCodes == {StatusOK, StatusNoContent, StatusNotFound}

SetHeader ==
    \E kv \in HeaderSets :
        /\ Call("set", ResSetHeader(World, kv[1], kv[2]),
                       ResSetHeader(ref, kv[1], kv[2]))
        /\ UNCHANGED <<written, hijack>>

WriteHeader ==
    \E code \in StatusCodes :
        /\ Call("writeheader", ResWriteHeader(World, code), ResWriteHeader(ref, code))
        /\ UNCHANGED <<written, hijack>>

Write ==
    \E b \in Payloads :
        /\ Call("write", ResWrite(World, b), ResWrite(ref, b))
        /\ written' = written \o b
        /\ UNCHANGED hijack

Flush ==
    /\ Call("flush", ResFlush(World), ResFlush(ref))
    /\ UNCHANGED <<written, hijack>>

Hijack ==
    /\ Call("hijack", ResHijack(World), ResHijack(ref))
    /\ hijack' = IF ResHijack(World).panic THEN "panic" ELSE "conn"
    /\ UNCHANGED written

\* The handler returns nil or an error, or panics by itself.
Return ==
    \E result \in {"nil", "err", "panic"} :
        /\ pc = "next"
        /\ Leave(World, result)
        /\ UNCHANGED <<optSkip, optLevel, reqAE, canFlush, canHijack, nextCalls,
                       ref, written, lastOp, used, hijack, nops>>

Next == Enter \/ SetHeader \/ WriteHeader \/ Write \/ Flush \/ Hijack \/ Return

Spec == Init /\ [][Next]_vars

----------------------------------------------------------------------------
(* Reading the original sink's body as a gzip stream *)

Kind(f) == f[1]
Data(f) == f[2]

\* The uncompressed data held by the deflate blocks among the first n frames.
RECURSIVE Inflate(_, _)
Inflate(body, n) ==
    IF n = 0 THEN <<>>
    ELSE Inflate(body, n - 1) \o
         (IF Kind(body[n]) \in {"sync", "final"} THEN Data(body[n]) ELSE <<>>)

\* body is a gzip member header followed by sync-flushed blocks, possibly
\* ended by the final block and the trailer: what a gzip reader accepts
\* while reading along.
Readable(body) ==
    /\ Len(body) >= 1
    /\ Kind(body[1]) = "hdr"
    /\ \A i \in 2..Len(body) :
          \/ Kind(body[i]) = "sync"
          \/ Kind(body[i]) = "final" /\ i = Len(body) - 1
          \/ Kind(body[i]) = "trailer" /\ i = Len(body)
                /\ Kind(body[i - 1]) = "final"

\* body is one complete gzip member whose trailer matches its data.
Finalized(body) ==
    /\ Readable(body)
    /\ Len(body) >= 3
    /\ Kind(body[Len(body)]) = "trailer"
    /\ Data(body[Len(body)]) = Inflate(body, Len(body))

\* The response W equals the reference response R but for the values
\* `added` at the end of Vary: header map, committed status and headers,
\* body, flushed part, and the route.Response's own fields.
SameResponse(W, R, added) ==
    /\ W.hdr = [R.hdr EXCEPT !.Vary = R.hdr.Vary \o added]
    /\ W.res = R.res
    /\ W.sink.body = R.sink.body
    /\ W.sink.status = R.sink.status
    /\ W.sink.wroteHeader = R.sink.wroteHeader
    /\ W.sink.flushed = R.sink.flushed
    /\ W.sink.hijacked = R.sink.hijacked
    /\ W.sink.wroteHeader =>
          W.sink.wire = [R.sink.wire EXCEPT !.Vary = R.sink.wire.Vary \o added]

WantsGzip == Contains(reqAE, gzipScheme)

\* The request took the compressing path: not skipped, gzip accepted and
\* the gzip.Writer constructed.
Compressing == ~optSkip /\ WantsGzip /\ z.made

----------------------------------------------------------------------------
(* Claims *)

\* C1 (as stated): on the compressing path, if Size is zero when next(c)
\* returns nil or an error, then on return the header map has no
\* Content-Encoding and res.Writer is the original sink.
C1_EmptyBodyNoEncoding ==
    (pc = "done" /\ Compressing /\ res.Size = 0 /\ exit \in {"nil", "err"})
        => (hdr.CE = <<>> /\ res.Writer = "rw")

\* C1 (amended): on the compressing path, if Size is zero when next(c)
\* ends (nil, error or panic), then on return the header map's
\* Content-Encoding is not gzip and res.Writer is the original sink.
C1_EmptyBodyNotGzip ==
    (pc = "done" /\ Compressing /\ res.Size = 0)
        => (hdr.CE # gzipScheme /\ res.Writer = "rw")

C1_Witness ==
    /\ pc = "done" /\ Compressing /\ res.Size = 0
    /\ exit = "err" /\ "writeheader" \in used

\* C2: on the compressing path, after a handler that only called Write and
\* Flush and wrote at least one byte, on return Content-Encoding is gzip
\* (in the header map and as committed) and the body on the original sink
\* is one finalized gzip member that inflates to the bytes written.
C2_BodyDecodesToWritten ==
    (pc = "done" /\ Compressing /\ used \subseteq {"write", "flush"}
        /\ res.Size > 0)
        => /\ hdr.CE = gzipScheme
           /\ sink.wire.CE = gzipScheme
           /\ Finalized(sink.body)
           /\ Inflate(sink.body, Len(sink.body)) = written

C2_Witness ==
    /\ pc = "done" /\ Compressing /\ used = {"write", "flush"}
    /\ Len(written) >= 2 /\ res.Size = Len(written)
    /\ \E i \in 1..Len(sink.body) : Kind(sink.body[i]) = "sync"

\* C3: with the decorator installed, right after Flush returns the body on
\* the original sink reads as a gzip stream holding exactly the bytes
\* written so far, the compressor buffers nothing, and a sink that can
\* flush has pushed all of it to the connection.
C3_FlushDeliversAll ==
    (pc = "next" /\ res.Writer = "grw" /\ lastOp = "flush")
        => /\ Readable(sink.body)
           /\ Inflate(sink.body, Len(sink.body)) = written
           /\ z.buf = <<>>
           /\ canFlush => sink.flushed = Len(sink.body)

C3_Witness ==
    /\ pc = "next" /\ res.Writer = "grw" /\ lastOp = "flush"
    /\ canFlush /\ written # <<>> /\ sink.flushed = Len(sink.body)
    /\ Len(sink.body) >= 3

\* C4: for a request that is not skipped and does not accept gzip, the
\* response always equals the one the same handler calls produce without
\* the middleware, but for Accept-Encoding appended to Vary; res.Writer
\* stays the original sink and no gzip.Writer is constructed.
C4_PlainPathUntouched ==
    (~optSkip /\ ~WantsGzip /\ pc # "idle")
        => /\ SameResponse(World, ref, <<"Accept-Encoding">>)
           /\ res.Writer = "rw"
           /\ ~z.made

C4_Witness ==
    /\ ~optSkip /\ ~WantsGzip /\ pc = "done" /\ reqAE # <<>>
    /\ res.Size > 0 /\ sink.flushed > 0 /\ hdr.CL # ""

\* C5: for a skipped request next(c) is called exactly once, its result is
\* the middleware's result, and the response equals the one produced
\* without the middleware, Vary included: no Content-Encoding is set,
\* res.Writer is not replaced and no gzip.Writer is constructed.
C5_SkipBypasses ==
    optSkip
        => /\ pc # "idle" => nextCalls = 1
           /\ pc = "done" => exit = nextResult /\ exit # "none"
           /\ SameResponse(World, ref, <<>>)
           /\ res.Writer = "rw"
           /\ ~z.made

C5_Witness ==
    /\ optSkip /\ WantsGzip /\ LevelValid(optLevel) /\ pc = "done"
    /\ exit = "err" /\ res.Size > 0 /\ hdr.Vary = PriorVary

\* C6: a constructed gzip.Writer is not closed while next(c) runs and has
\* been closed exactly once when the middleware returns, however next(c)
\* ended; with Size zero the close follows the reset.
C6_ClosedExactlyOnce ==
    z.made
        => /\ pc = "next" => (z.closes = 0 /\ z.log = <<"new">>)
           /\ pc = "done" =>
                 /\ z.closes = 1
                 /\ z.closed
                 /\ z.log = IF res.Size = 0 THEN <<"new", "reset", "close">>
                            ELSE <<"new", "close">>

C6_Witness ==
    /\ z.made /\ pc = "done" /\ exit = "panic" /\ res.Size = 0
    /\ z.log = <<"new", "reset", "close">>

\* C7: Hijack on the decorator delegates to a sink that is an
\* http.Hijacker, and otherwise reports the capability as unsupported
\* instead of panicking.
C7_HijackUnsupportedIsSignalled ==
    (Compressing /\ "hijack" \in used)
        => IF canHijack THEN hijack = "conn" /\ sink.hijacked
           ELSE hijack = "unsupported"

\* C8: on the compressing path, after handler calls (header sets,
\* WriteHeader, Flush, zero-length Write) that leave Size at zero, the
\* returned response equals the one the same calls produce without the
\* middleware, but for Accept-Encoding appended to Vary.
C8_EmptyBodyIndistinguishable ==
    (pc = "done" /\ exit \in {"nil", "err"} /\ Compressing /\ res.Size = 0
        /\ ~ref.panic
        /\ used \subseteq {"set", "writeheader", "flush", "write"})
        => SameResponse(World, ref, <<"Accept-Encoding">>)

\* C9: while the decorator is installed, once the status and headers are
\* committed to the original sink or bytes have reached it, the committed
\* headers carry no Content-Length.
C9_NoContentLengthWhileCompressing ==
    (res.Writer = "grw" /\ (sink.wroteHeader \/ Len(sink.body) > 0))
        => sink.wire.CL = ""

\* C10: whenever the middleware has returned with Content-Encoding: gzip in
\* the header map, Size is greater than zero; in particular a failed
\* gzip.NewWriterLevel does not leave Content-Encoding: gzip behind.
C10_GzipHeaderImpliesBody ==
    (pc = "done" /\ hdr.CE = gzipScheme) => res.Size > 0

====
